---- MODULE Spec2Model ----
(***************************************************************************)
(* A model of homework 05/hw5code.py: find_best_split (Gini split search   *)
(* over one feature) and DecisionTree (_fit_node, fit, _predict_node,      *)
(* predict).                                                               *)
(*                                                                         *)
(* Conventions.  Vectors are sequences, indexed from 1 (Python's index i   *)
(* is i + 1 here; feature columns are numbered from 1).  Feature values    *)
(* are integers.  Arithmetic is exact: a threshold (a + b) / 2 is kept as  *)
(* the integer a + b, i.e. twice the midpoint, and every comparison        *)
(* x < threshold is made as 2 * x < a + b; a Gini value is kept as a       *)
(* fraction [num, den] with den > 0 and compared by cross-multiplication.  *)
(* A Python dict (a tree node) is a function from its present keys.        *)
(***************************************************************************)
EXTENDS Integers, Sequences, FiniteSets, TLC

\* ---------------------------------------------------------------- bounds
\* Longest vector handed to find_best_split on its own (SpecSplit), and most
\* rows of a training set of one column (SpecColumn).
MaxLen == 4
\* Feature values (real values and category identifiers) range over 1..MaxValue.
MaxValue == 3
\* Most rows of a training set of two columns.
MaxSamples == 3
\* Most calls of fit on one model instance (SpecRefit).
MaxFits == 2

\* min_samples_split's default value in DecisionTree.__init__.
DefaultMinSamplesSplit == 2

Labels == {0, 1}
FeatureTypes == {"real", "categorical"}

\* ------------------------------------------------------------- fractions
Frac(n, d) == [num |-> n, den |-> d]
FracGT(a, b) == a.num * b.den > b.num * a.den
FracEQ(a, b) == a.num * b.den = b.num * a.den

\* ------------------------------------------------------- vector helpers
Range(s) == {s[i] : i \in DOMAIN s}

\* v[mask], numpy's boolean indexing: the entries of v where mask is TRUE, in order.
RECURSIVE Masked(_, _)
Masked(v, mask) ==
    IF Len(v) = 0 THEN <<>>
    ELSE LET rest == Masked(Tail(v), Tail(mask))
         IN  IF Head(mask) THEN <<Head(v)>> \o rest ELSE rest

\* np.cumsum
RECURSIVE SumUpTo(_, _)
SumUpTo(v, k) == IF k = 0 THEN 0 ELSE SumUpTo(v, k - 1) + v[k]
cumsum(v) == [k \in 1..Len(v) |-> SumUpTo(v, k)]

\* np.all(v == v[0]) for a non-empty v
AllEqualFirst(v) == \A i \in DOMAIN v : v[i] = v[1]

\* The outcomes np.argsort may produce: every permutation of the indices that
\* puts v in ascending order (the default sort kind is not stable, so the order
\* of equal values is any).
RECURSIVE ArgSortsOf(_, _)
ArgSortsOf(v, rest) ==
    IF rest = {} THEN {<<>>}
    ELSE LET lowest == {j \in rest : \A k \in rest : v[j] <= v[k]}
         IN  UNION {{<<i>> \o s : s \in ArgSortsOf(v, rest \ {i})} : i \in lowest}
ArgSorts(v) == ArgSortsOf(v, DOMAIN v)

\* A changed argmax: the last index of a maximal entry.
argmax_last(g) ==
    CHOOSE i \in DOMAIN g :
        /\ \A j \in DOMAIN g : ~FracGT(g[j], g[i])
        /\ \A j \in (i + 1)..Len(g) : FracGT(g[i], g[j])

\* np.argmax: the first index of a maximal entry (of a non-empty vector).
argmax(g) ==
    CHOOSE i \in DOMAIN g :
        /\ \A j \in DOMAIN g : ~FracGT(g[j], g[i])
        /\ \A j \in 1..(i - 1) : FracGT(g[i], g[j])

\* -------------------------------------------------------- find_best_split
\* gini_vec before masking: entry i is the criterion of the split that sends
\* the first i sorted samples left, i in 1..R-1.
GiniAt(target_sort, i) ==
    LET R      == Len(target_sort)
        R_l_1  == cumsum(target_sort)
        l      == i
        r      == R - i
        a      == R_l_1[i]
        b      == R_l_1[R] - R_l_1[i]
        \* l/R * (p0^2 + p1^2 - 1) + r/R * (q0^2 + q1^2 - 1), over R * l * r
    IN  Frac(((l - a) * (l - a) + a * a - l * l) * r
               + ((r - b) * (r - b) + b * b - r * r) * l,
             R * l * r)

\* A changed find_best_split: the midpoints are not restricted by the mask.
find_best_split_unmasked_thresholds(feature_vector, target_vector, sorted_ind) ==
    LET R            == Len(feature_vector)
        feat_sort    == [i \in 1..R |-> feature_vector[sorted_ind[i]]]
        target_sort  == [i \in 1..R |-> target_vector[sorted_ind[i]]]
        mask         == [i \in 1..(R - 1) |-> feat_sort[i + 1] # feat_sort[i]]
        mids         == [i \in 1..(R - 1) |-> feat_sort[i + 1] + feat_sort[i]]
        gini_all     == [i \in 1..(R - 1) |-> GiniAt(target_sort, i)]
        gini_vec     == Masked(gini_all, mask)
        ind_best     == argmax(gini_vec)
    IN  [thresholds     |-> mids,
         ginis          |-> gini_vec,
         threshold_best |-> mids[ind_best],
         gini_best      |-> gini_vec[ind_best]]

\* A changed find_best_split: a threshold is the lower of the two adjacent
\* values instead of their midpoint.
find_best_split_left_value(feature_vector, target_vector, sorted_ind) ==
    LET R            == Len(feature_vector)
        feat_sort    == [i \in 1..R |-> feature_vector[sorted_ind[i]]]
        target_sort  == [i \in 1..R |-> target_vector[sorted_ind[i]]]
        mask         == [i \in 1..(R - 1) |-> feat_sort[i + 1] # feat_sort[i]]
        lows         == [i \in 1..(R - 1) |-> 2 * feat_sort[i]]
        threshold_vec == Masked(lows, mask)
        gini_all     == [i \in 1..(R - 1) |-> GiniAt(target_sort, i)]
        gini_vec     == Masked(gini_all, mask)
        ind_best     == argmax(gini_vec)
    IN  [thresholds     |-> threshold_vec,
         ginis          |-> gini_vec,
         threshold_best |-> threshold_vec[ind_best],
         gini_best      |-> gini_vec[ind_best]]

\* A changed find_best_split: gini_vec is cut to the number of thresholds
\* instead of being restricted by the mask.
find_best_split_unmasked_ginis(feature_vector, target_vector, sorted_ind) ==
    LET R            == Len(feature_vector)
        feat_sort    == [i \in 1..R |-> feature_vector[sorted_ind[i]]]
        target_sort  == [i \in 1..R |-> target_vector[sorted_ind[i]]]
        mask         == [i \in 1..(R - 1) |-> feat_sort[i + 1] # feat_sort[i]]
        mids         == [i \in 1..(R - 1) |-> feat_sort[i + 1] + feat_sort[i]]
        threshold_vec == Masked(mids, mask)
        gini_all     == [i \in 1..(R - 1) |-> GiniAt(target_sort, i)]
        gini_vec     == SubSeq(gini_all, 1, Len(threshold_vec))
        ind_best     == argmax(gini_vec)
    IN  [thresholds     |-> threshold_vec,
         ginis          |-> gini_vec,
         threshold_best |-> threshold_vec[ind_best],
         gini_best      |-> gini_vec[ind_best]]

\* find_best_split for the sort outcome sorted_ind, a non-constant feature_vector.
find_best_split(feature_vector, target_vector, sorted_ind) ==
    LET R            == Len(feature_vector)
        feat_sort    == [i \in 1..R |-> feature_vector[sorted_ind[i]]]
        target_sort  == [i \in 1..R |-> target_vector[sorted_ind[i]]]
        mask         == [i \in 1..(R - 1) |-> feat_sort[i + 1] # feat_sort[i]]
        mids         == [i \in 1..(R - 1) |-> feat_sort[i + 1] + feat_sort[i]]
        threshold_vec == Masked(mids, mask)
        gini_all     == [i \in 1..(R - 1) |-> GiniAt(target_sort, i)]
        gini_vec     == Masked(gini_all, mask)
        ind_best     == argmax(gini_vec)
    IN  [thresholds     |-> threshold_vec,
         ginis          |-> gini_vec,
         threshold_best |-> threshold_vec[ind_best],
         gini_best      |-> gini_vec[ind_best]]

\* Nothing returned (yet).
NoResult == [thresholds |-> <<>>, ginis |-> <<>>,
             threshold_best |-> 0, gini_best |-> Frac(0, 1)]

\* ------------------------------------------------------------ Python dicts
EmptyDict == [k \in {} |-> 0]
\* d[k] = v
SetKey(d, k, v) == [x \in (DOMAIN d) \cup {k} |-> IF x = k THEN v ELSE d[x]]

\* The node reached from t by following the child keys of path.
RECURSIVE NodeAt(_, _)
NodeAt(t, path) == IF path = <<>> THEN t ELSE NodeAt(t[Head(path)], Tail(path))

\* t with the node at path replaced by n.
RECURSIVE SetNodeAt(_, _, _)
SetNodeAt(t, path, n) ==
    IF path = <<>> THEN n
    ELSE SetKey(t, Head(path), SetNodeAt(t[Head(path)], Tail(path), n))

\* ------------------------------------------------- DecisionTree._fit_node
\* sub_X[:, feature]
Column(sub_X, feature) == [i \in 1..Len(sub_X) |-> sub_X[i][feature]]

\* Counter(sub_y).most_common(1)[0][0]: the label with the larger count, and
\* on equal counts the one met first.
MostCommon(sub_y) ==
    LET n1 == Cardinality({i \in DOMAIN sub_y : sub_y[i] = 1})
        n0 == Len(sub_y) - n1
    IN  IF n1 > n0 THEN 1 ELSE IF n0 > n1 THEN 0 ELSE sub_y[1]

\* The keys of Counter(column), in insertion order: each value at its first occurrence.
RECURSIVE KeysInOrder(_)
KeysInOrder(column) ==
    IF Len(column) = 0 THEN <<>>
    ELSE LET front == KeysInOrder(SubSeq(column, 1, Len(column) - 1))
             x     == column[Len(column)]
         IN  IF x \in Range(front) THEN front ELSE Append(front, x)

\* ratio[key] = current_click / current_count
Ratio(column, sub_y, key) ==
    Frac(Cardinality({i \in DOMAIN column : column[i] = key /\ sub_y[i] = 1}),
         Cardinality({i \in DOMAIN column : column[i] = key}))

\* A changed SortedCategories: the keys sorted by themselves, not by ratio.
SortedCategories_by_key(column, sub_y) ==
    LET keys == Range(column)
    IN  [r \in 1..Cardinality(keys) |->
            CHOOSE k \in keys : Cardinality({j \in keys : j < k}) = r - 1]

\* sorted(ratio.keys(), key=lambda k: ratio[k]): a stable sort, so keys of
\* equal ratio keep their insertion order.
SortedCategories(column, sub_y) ==
    LET keys == KeysInOrder(column)
        before(i, j) ==
            \/ FracGT(Ratio(column, sub_y, keys[j]), Ratio(column, sub_y, keys[i]))
            \/ /\ FracEQ(Ratio(column, sub_y, keys[i]), Ratio(column, sub_y, keys[j]))
               /\ i < j
        place(i) == 1 + Cardinality({j \in DOMAIN keys : before(j, i)})
    IN  [r \in 1..Len(keys) |-> keys[CHOOSE i \in DOMAIN keys : place(i) = r]]

\* categories_map[x]: the position of x in sorted_categories, counted from 0.
CategoryRank(sorted_categories, x) ==
    (CHOOSE r \in DOMAIN sorted_categories : sorted_categories[r] = x) - 1

\* The vector the scan hands on for one column: the column itself for a real
\* feature, the ranks of its categories for a categorical one.
FeatureVector(sub_X, sub_y, feature, feature_type) ==
    IF feature_type = "real" THEN Column(sub_X, feature)
    ELSE LET sorted_categories == SortedCategories(Column(sub_X, feature), sub_y)
         IN  [i \in 1..Len(sub_X) |->
                 CategoryRank(sorted_categories, sub_X[i][feature])]

\* A changed CategoriesBelow: the category itself, not its rank, is compared
\* with the threshold.
CategoriesBelow_raw(sorted_categories, threshold) ==
    LET below == [r \in DOMAIN sorted_categories |->
                     2 * sorted_categories[r] < threshold]
    IN  Masked(sorted_categories, below)

\* The categories whose rank is below the threshold, in categories_map's order.
CategoriesBelow(sorted_categories, threshold) ==
    LET below == [r \in DOMAIN sorted_categories |-> 2 * (r - 1) < threshold]
    IN  Masked(sorted_categories, below)

\* No best split yet: feature_best, threshold_best, gini_best, split are None.
NoBest == [feature_best |-> 0, threshold_best |-> <<>>,
           gini_best |-> Frac(0, 1), split |-> <<>>]

\* What find_best_split may return on these vectors: its result for some
\* outcome of np.argsort.
SplitOutcomes(feature_vector, target_vector) ==
    {find_best_split(feature_vector, target_vector, s) : s \in ArgSorts(feature_vector)}

\* For each column in turn what the loop gets from find_best_split (nothing,
\* NoResult, for a column it skips): every combination the sorts allow.
RECURSIVE FoundChoices(_, _, _, _)
FoundChoices(sub_X, sub_y, types, feature) ==
    IF feature > Len(types) THEN {<<>>}
    ELSE LET feature_vector == FeatureVector(sub_X, sub_y, feature, types[feature])
             here == IF AllEqualFirst(feature_vector) THEN {NoResult}
                     ELSE SplitOutcomes(feature_vector, sub_y)
         IN  {<<r>> \o rest : r \in here,
                              rest \in FoundChoices(sub_X, sub_y, types, feature + 1)}

\* A changed loop: a constant column is not skipped.
RECURSIVE ScanFrom_noskip(_, _, _, _, _, _)
ScanFrom_noskip(sub_X, sub_y, types, found, feature, scan) ==
    IF feature > Len(types) THEN scan
    ELSE
      LET feature_type   == types[feature]
          feature_vector == FeatureVector(sub_X, sub_y, feature, feature_type)
          threshold      == found[feature].threshold_best
          gini           == found[feature].gini_best
          taken ==
              [feature_best   |-> feature,
               gini_best      |-> gini,
               split          |-> [i \in 1..Len(sub_X) |->
                                      2 * feature_vector[i] < threshold],
               threshold_best |->
                   IF feature_type = "real" THEN threshold
                   ELSE CategoriesBelow(
                            SortedCategories(Column(sub_X, feature), sub_y),
                            threshold)]
          skipped == [called |-> FALSE, feature_vector |-> feature_vector,
                      threshold |-> 0, gini |-> Frac(0, 1)]
          called  == [called |-> TRUE, feature_vector |-> feature_vector,
                      threshold |-> threshold, gini |-> gini]
      IN  IF FALSE
          THEN ScanFrom_noskip(sub_X, sub_y, types, found, feature + 1,
                        [best |-> scan.best, log |-> Append(scan.log, skipped)])
          ELSE IF scan.best.feature_best = 0 \/ FracGT(gini, scan.best.gini_best)
               THEN ScanFrom_noskip(sub_X, sub_y, types, found, feature + 1,
                             [best |-> taken, log |-> Append(scan.log, called)])
               ELSE ScanFrom_noskip(sub_X, sub_y, types, found, feature + 1,
                             [best |-> scan.best, log |-> Append(scan.log, called)])

\* --------------------------------------------- DecisionTree._predict_node

\* A changed loop: a column of equal gini replaces the best so far.
RECURSIVE ScanFrom_ge(_, _, _, _, _, _)
ScanFrom_ge(sub_X, sub_y, types, found, feature, scan) ==
    IF feature > Len(types) THEN scan
    ELSE
      LET feature_type   == types[feature]
          feature_vector == FeatureVector(sub_X, sub_y, feature, feature_type)
          threshold      == found[feature].threshold_best
          gini           == found[feature].gini_best
          taken ==
              [feature_best   |-> feature,
               gini_best      |-> gini,
               split          |-> [i \in 1..Len(sub_X) |->
                                      2 * feature_vector[i] < threshold],
               threshold_best |->
                   IF feature_type = "real" THEN threshold
                   ELSE CategoriesBelow(
                            SortedCategories(Column(sub_X, feature), sub_y),
                            threshold)]
          skipped == [called |-> FALSE, feature_vector |-> feature_vector,
                      threshold |-> 0, gini |-> Frac(0, 1)]
          called  == [called |-> TRUE, feature_vector |-> feature_vector,
                      threshold |-> threshold, gini |-> gini]
      IN  IF AllEqualFirst(feature_vector)
          THEN ScanFrom_ge(sub_X, sub_y, types, found, feature + 1,
                        [best |-> scan.best, log |-> Append(scan.log, skipped)])
          ELSE IF scan.best.feature_best = 0 \/ ~FracGT(scan.best.gini_best, gini)
               THEN ScanFrom_ge(sub_X, sub_y, types, found, feature + 1,
                             [best |-> taken, log |-> Append(scan.log, called)])
               ELSE ScanFrom_ge(sub_X, sub_y, types, found, feature + 1,
                             [best |-> scan.best, log |-> Append(scan.log, called)])

\* --------------------------------------------- DecisionTree._predict_node

\* The loop over the columns, from column `feature` on.  `scan` holds the
\* loop's variables feature_best, threshold_best, gini_best, split (in best)
\* and, in log, what was done with each column so far: the vector made of it,
\* whether find_best_split was called on it, and the threshold and gini got.
\* found[f] is what find_best_split returns for column f.
RECURSIVE ScanFrom(_, _, _, _, _, _)
ScanFrom(sub_X, sub_y, types, found, feature, scan) ==
    IF feature > Len(types) THEN scan
    ELSE
      LET feature_type   == types[feature]
          feature_vector == FeatureVector(sub_X, sub_y, feature, feature_type)
          threshold      == found[feature].threshold_best
          gini           == found[feature].gini_best
          taken ==
              [feature_best   |-> feature,
               gini_best      |-> gini,
               split          |-> [i \in 1..Len(sub_X) |->
                                      2 * feature_vector[i] < threshold],
               threshold_best |->
                   IF feature_type = "real" THEN threshold
                   ELSE CategoriesBelow(
                            SortedCategories(Column(sub_X, feature), sub_y),
                            threshold)]
          skipped == [called |-> FALSE, feature_vector |-> feature_vector,
                      threshold |-> 0, gini |-> Frac(0, 1)]
          called  == [called |-> TRUE, feature_vector |-> feature_vector,
                      threshold |-> threshold, gini |-> gini]
      IN  IF AllEqualFirst(feature_vector)
          THEN ScanFrom(sub_X, sub_y, types, found, feature + 1,
                        [best |-> scan.best, log |-> Append(scan.log, skipped)])
          ELSE IF scan.best.feature_best = 0 \/ FracGT(gini, scan.best.gini_best)
               THEN ScanFrom(sub_X, sub_y, types, found, feature + 1,
                             [best |-> taken, log |-> Append(scan.log, called)])
               ELSE ScanFrom(sub_X, sub_y, types, found, feature + 1,
                             [best |-> scan.best, log |-> Append(scan.log, called)])

\* --------------------------------------------- DecisionTree._predict_node
\* Whether _predict_node goes to the left child of a nonterminal node.
GoesLeft(x, node, types) ==
    IF types[node["feature_split"]] = "real"
    THEN 2 * x[node["feature_split"]] < node["threshold"]
    ELSE x[node["feature_split"]] \in Range(node["categories_split"])

RECURSIVE predict_node(_, _, _)
predict_node(x, node, types) ==
    IF node["type"] = "terminal" THEN node["class"]
    ELSE IF GoesLeft(x, node, types)
         THEN predict_node(x, node["left_child"], types)
         ELSE predict_node(x, node["right_child"], types)

\* ------------------------------------------------------------------ state
VARIABLES
    \* find_best_split called on its own (SpecSplit)
    feature_vector,   \* its first argument
    target_vector,    \* its second argument
    sorted_ind,       \* the outcome of np.argsort inside the call
    split_result,     \* the 4-tuple the call returned
    split_pc,         \* "call", "returned" or "ValueError" ("none": no such call)
    \* a DecisionTree instance (Spec)
    feature_types,    \* self.feature_types
    min_samples_split, \* self.min_samples_split
    tree,             \* self.tree
    depth,            \* self.depth
    \* the calls on it
    X, y,             \* the arguments of the latest fit
    stack,            \* the pending _fit_node calls, the next one first
    pc,               \* "idle", "fit" (inside fit) or "IndexError"
    fits,             \* how many times fit was called
    predicted,        \* what the latest predict(X) returned
    \* observation
    calls,            \* the _fit_node calls of the latest fit that returned
    created           \* nonterminal nodes made since construction

splitVars == <<feature_vector, target_vector, sorted_ind, split_result, split_pc>>
treeVars == <<feature_types, min_samples_split, tree, depth, X, y, stack, pc,
              fits, predicted, calls, created>>
vars == <<splitVars, treeVars>>

\* ---------------------------------------------- find_best_split on its own
VectorsOfLen(S, n) == [1..n -> S]

\* No DecisionTree in play.
NoTree ==
    /\ feature_types = <<>>
    /\ min_samples_split = DefaultMinSamplesSplit
    /\ tree = EmptyDict
    /\ depth = 0
    /\ X = <<>>
    /\ y = <<>>
    /\ stack = <<>>
    /\ pc = "none"
    /\ fits = 0
    /\ predicted = <<>>
    /\ calls = <<>>
    /\ created = 0

SplitInit ==
    /\ NoTree
    /\ \E n \in 1..MaxLen :
          /\ feature_vector \in VectorsOfLen(1..MaxValue, n)
          /\ target_vector \in VectorsOfLen(Labels, n)
    /\ sorted_ind = <<>>
    /\ split_result = NoResult
    /\ split_pc = "call"

\* The call returns: the vector is not constant, so gini_vec is not empty.
FindBestSplit ==
    /\ split_pc = "call"
    /\ ~AllEqualFirst(feature_vector)
    /\ \E s \in ArgSorts(feature_vector) :
          /\ sorted_ind' = s
          /\ split_result' = find_best_split(feature_vector, target_vector, s)
    /\ split_pc' = "returned"
    /\ UNCHANGED <<feature_vector, target_vector, treeVars>>

\* The call raises: on a constant vector (one of length 1 included) the mask
\* selects nothing and np.argmax of the empty gini_vec raises ValueError.
FindBestSplitRaises ==
    /\ split_pc = "call"
    /\ AllEqualFirst(feature_vector)
    /\ \E s \in ArgSorts(feature_vector) : sorted_ind' = s
    /\ split_pc' = "ValueError"
    /\ UNCHANGED <<feature_vector, target_vector, split_result, treeVars>>

SplitNext == FindBestSplit \/ FindBestSplitRaises

SpecSplit == SplitInit /\ [][SplitNext]_vars

Returned == split_pc = "returned"

\* ------------------------------------------------------------ DecisionTree
\* A tree over two columns of any mix of types takes the values of a training
\* set from {1, 2}; a tree over one categorical column takes them from
\* 1..MaxValue.
TwoColumns == [{1, 2} -> FeatureTypes]
OneColumn == {<<"categorical">>}
MaxRows(types) == IF Len(types) = 1 THEN MaxLen ELSE MaxSamples
Values(types) == IF Len(types) = 1 THEN 1..MaxValue ELSE {1, 2}

\* DecisionTree(feature_types, min_samples_split=...), feature_types in
\* `choices` and min_samples_split in `sizes`.
Constructed(choices, sizes) ==
    /\ feature_vector = <<>>
    /\ target_vector = <<>>
    /\ sorted_ind = <<>>
    /\ split_result = NoResult
    /\ split_pc = "none"
    /\ feature_types \in choices
    /\ min_samples_split \in sizes
    /\ tree = EmptyDict
    /\ depth = 0
    /\ X = <<>>
    /\ y = <<>>
    /\ stack = <<>>
    /\ pc = "idle"
    /\ fits = 0
    /\ predicted = <<>>
    /\ calls = <<>>
    /\ created = 0

Init == Constructed(TwoColumns, {1, DefaultMinSamplesSplit})

\* fit(X, y) is called on the new instance: _fit_node(X, y, self.tree) is the
\* first pending call.
Fit ==
    /\ pc = "idle"
    /\ fits = 0
    /\ \E n \in 1..MaxRows(feature_types) :
          /\ X' \in [1..n -> [DOMAIN feature_types -> Values(feature_types)]]
          /\ y' \in [1..n -> Labels]
          /\ stack' = <<[path |-> <<>>, idx |-> [i \in 1..n |-> i]]>>
    /\ pc' = "fit"
    /\ fits' = fits + 1
    /\ predicted' = <<>>
    /\ calls' = <<>>
    /\ UNCHANGED <<feature_types, min_samples_split, tree, depth, created, splitVars>>

\* A changed fit: a later call starts the depth counter again.
Refit_reset_depth ==
    /\ pc = "idle"
    /\ fits > 0
    /\ fits < MaxFits
    /\ \E n \in 1..Len(X) :
          /\ X' = SubSeq(X, 1, n)
          /\ y' = SubSeq(y, 1, n)
          /\ stack' = <<[path |-> <<>>, idx |-> [i \in 1..n |-> i]]>>
    /\ pc' = "fit"
    /\ fits' = fits + 1
    /\ predicted' = <<>>
    /\ calls' = <<>>
    /\ depth' = 0
    /\ UNCHANGED <<feature_types, min_samples_split, tree, created, splitVars>>

\* fit is called again on the same instance, on the first n rows of the data
\* it was given before (all of them, or fewer).
Refit ==
    /\ pc = "idle"
    /\ fits > 0
    /\ fits < MaxFits
    /\ \E n \in 1..Len(X) :
          /\ X' = SubSeq(X, 1, n)
          /\ y' = SubSeq(y, 1, n)
          /\ stack' = <<[path |-> <<>>, idx |-> [i \in 1..n |-> i]]>>
    /\ pc' = "fit"
    /\ fits' = fits + 1
    /\ predicted' = <<>>
    /\ calls' = <<>>
    /\ UNCHANGED <<feature_types, min_samples_split, tree, depth, created, splitVars>>

\* A changed _fit_node: the size stop needs fewer than min_samples_split rows.
NodePlans_strict_size(sub_X, sub_y, types, mss) ==
    IF Len(sub_y) = 0
    THEN {[outcome |-> "IndexError", class |-> 0, scan |-> <<>>, best |-> NoBest]}
    ELSE IF AllEqualFirst(sub_y)
    THEN {[outcome |-> "pure", class |-> sub_y[1], scan |-> <<>>, best |-> NoBest]}
    ELSE IF Len(sub_y) < mss
    THEN {[outcome |-> "size", class |-> MostCommon(sub_y), scan |-> <<>>,
           best |-> NoBest]}
    ELSE {LET scan == ScanFrom(sub_X, sub_y, types, found, 1,
                               [best |-> NoBest, log |-> <<>>])
          IN  IF scan.best.feature_best = 0
              THEN [outcome |-> "nocandidate", class |-> MostCommon(sub_y),
                    scan |-> scan.log, best |-> scan.best]
              ELSE [outcome |-> "nonterminal", class |-> 0, scan |-> scan.log,
                    best |-> scan.best]
          : found \in FoundChoices(sub_X, sub_y, types, 1)}

\* What one _fit_node call may decide for its rows, one plan for each outcome
\* of the sorts inside find_best_split: outcome is "pure" (all labels equal),
\* "size" (no more than min_samples_split rows), "nocandidate" (every column
\* skipped), "nonterminal", or "IndexError" (sub_y[0] of no rows).
NodePlans(sub_X, sub_y, types, mss) ==
    IF Len(sub_y) = 0
    THEN {[outcome |-> "IndexError", class |-> 0, scan |-> <<>>, best |-> NoBest]}
    ELSE IF AllEqualFirst(sub_y)
    THEN {[outcome |-> "pure", class |-> sub_y[1], scan |-> <<>>, best |-> NoBest]}
    ELSE IF Len(sub_y) <= mss
    THEN {[outcome |-> "size", class |-> MostCommon(sub_y), scan |-> <<>>,
           best |-> NoBest]}
    ELSE {LET scan == ScanFrom(sub_X, sub_y, types, found, 1,
                               [best |-> NoBest, log |-> <<>>])
          IN  IF scan.best.feature_best = 0
              THEN [outcome |-> "nocandidate", class |-> MostCommon(sub_y),
                    scan |-> scan.log, best |-> scan.best]
              ELSE [outcome |-> "nonterminal", class |-> 0, scan |-> scan.log,
                    best |-> scan.best]
          : found \in FoundChoices(sub_X, sub_y, types, 1)}

\* The node dict after the call's own assignments to it.
FittedNode(node, plan, types) ==
    IF plan.outcome \in {"pure", "size", "nocandidate"}
    THEN SetKey(SetKey(node, "type", "terminal"), "class", plan.class)
    ELSE LET n1 == SetKey(node, "type", "nonterminal")
             n2 == SetKey(n1, "feature_split", plan.best.feature_best)
             n3 == IF types[plan.best.feature_best] = "real"
                   THEN SetKey(n2, "threshold", plan.best.threshold_best)
                   ELSE SetKey(n2, "categories_split", plan.best.threshold_best)
         IN  SetKey(SetKey(n3, "left_child", EmptyDict), "right_child", EmptyDict)

\* One call _fit_node(sub_X, sub_y, node), up to its recursive calls, which
\* become the next pending calls (left first); fit returns with the last one.
FitNode ==
    /\ pc = "fit"
    /\ stack # <<>>
    /\ LET call  == Head(stack)
           sub_X == [i \in 1..Len(call.idx) |-> X[call.idx[i]]]
           sub_y == [i \in 1..Len(call.idx) |-> y[call.idx[i]]]
           node  == NodeAt(tree, call.path)
       IN  \E plan \in NodePlans(sub_X, sub_y, feature_types, min_samples_split) :
           \E children \in {IF plan.outcome = "nonterminal"
                         THEN <<[path |-> Append(call.path, "left_child"),
                                 idx  |-> Masked(call.idx, plan.best.split)],
                                [path |-> Append(call.path, "right_child"),
                                 idx  |-> Masked(call.idx,
                                                 [i \in DOMAIN plan.best.split |->
                                                     ~plan.best.split[i]])]>>
                         ELSE <<>>} :
             /\ calls' = Append(calls, [path |-> call.path, idx |-> call.idx,
                                        outcome |-> plan.outcome,
                                        scan |-> plan.scan, best |-> plan.best])
             /\ IF plan.outcome = "IndexError"
                THEN /\ pc' = "IndexError"
                     /\ UNCHANGED <<tree, depth, stack, created>>
                ELSE /\ tree' = SetNodeAt(tree, call.path,
                                          FittedNode(node, plan, feature_types))
                     /\ depth' = IF plan.outcome = "nonterminal"
                                 THEN depth + 1 ELSE depth
                     /\ created' = IF plan.outcome = "nonterminal"
                                   THEN created + 1 ELSE created
                     /\ stack' = children \o Tail(stack)
                     /\ pc' = IF children \o Tail(stack) = <<>> THEN "idle" ELSE "fit"
    /\ UNCHANGED <<feature_types, min_samples_split, X, y, fits, predicted, splitVars>>

\* predict(X) on the rows last fitted.
Predict ==
    /\ pc = "idle"
    /\ fits > 0
    /\ predicted' = [i \in 1..Len(X) |-> predict_node(X[i], tree, feature_types)]
    /\ UNCHANGED <<feature_types, min_samples_split, tree, depth, X, y, stack, pc,
                   fits, calls, created, splitVars>>

Next == Fit \/ FitNode \/ Predict

\* One fit of a new tree over two columns, and predictions.
Spec == Init /\ [][Next]_vars

\* One fit of a new tree over one categorical column, with min_samples_split = 1
\* so that every subset of mixed labels is scanned.
ColumnInit == Constructed(OneColumn, {1})
ColumnNext == Fit \/ FitNode
SpecColumn == ColumnInit /\ [][ColumnNext]_vars

\* Several fits of one tree over two columns.
RefitNext == Fit \/ FitNode \/ Refit
SpecRefit == Init /\ [][RefitNext]_vars

\* ------------------------------------------- claims about find_best_split
\* Pairs of adjacent strictly different values of the sorted vector.
AdjacentBoundaries(v) ==
    {p \in Range(v) \X Range(v) :
        /\ p[1] < p[2]
        /\ ~\E c \in Range(v) : p[1] < c /\ c < p[2]}

\* C3: for a non-constant feature vector find_best_split returns; its
\* thresholds are strictly ascending, as many as there are adjacent pairs of
\* strictly different sorted values (distinct values minus one), each the
\* midpoint of such a pair (kept doubled), and ginis is as long as thresholds.
C3_ThresholdCandidates ==
    /\ (split_pc # "call" /\ ~AllEqualFirst(feature_vector)) => Returned
    /\ Returned =>
         LET t == split_result.thresholds
             g == split_result.ginis
         IN  /\ \A i \in 1..(Len(t) - 1) : t[i] < t[i + 1]
             /\ Len(t) = Cardinality(Range(feature_vector)) - 1
             /\ Len(t) = Cardinality(AdjacentBoundaries(feature_vector))
             /\ Range(t) = {p[1] + p[2] : p \in AdjacentBoundaries(feature_vector)}
             /\ Len(g) = Len(t)

\* C3's case: an unsorted vector with a repeated value and at least two thresholds.
C3_Witness ==
    /\ Returned
    /\ Len(split_result.thresholds) >= 2
    /\ \E i, j \in DOMAIN feature_vector : i < j /\ feature_vector[i] = feature_vector[j]
    /\ \E i, j \in DOMAIN feature_vector : i < j /\ feature_vector[i] > feature_vector[j]

\* H(S) = 1 - p1^2 - p0^2 for n labels of which a are 1, as a fraction.
H(n, a) == Frac(n * n - a * a - (n - a) * (n - a), n * n)

\* Q = -(|L|/R) H(L) - (|Rt|/R) H(Rt) for the partition of the samples by
\* 2 * feature value < threshold2, as a fraction.
QOfPartition(fv, tv, threshold2) ==
    LET Lset == {j \in DOMAIN fv : 2 * fv[j] < threshold2}
        Rset == DOMAIN fv \ Lset
        nl   == Cardinality(Lset)
        nr   == Cardinality(Rset)
        al   == Cardinality({j \in Lset : tv[j] = 1})
        ar   == Cardinality({j \in Rset : tv[j] = 1})
        hl   == H(nl, al)
        hr   == H(nr, ar)
    IN  Frac(0 - (nl * hl.num * hr.den + nr * hr.num * hl.den),
             Len(fv) * hl.den * hr.den)

\* C4: the k-th gini returned equals Q of the partition the k-th threshold
\* makes of the samples (value < threshold left, the rest right), whatever
\* order the sort gave to equal values; for feature [1,2,2,3] and target
\* [0,1,1,1] the thresholds are [1.5, 2.5] and the ginis [0, -1/3].
C4_GiniOfPartition ==
    Returned =>
        /\ \A k \in DOMAIN split_result.thresholds :
              /\ k \in DOMAIN split_result.ginis
              /\ FracEQ(split_result.ginis[k],
                        QOfPartition(feature_vector, target_vector,
                                     split_result.thresholds[k]))
        /\ (feature_vector = <<1, 2, 2, 3>> /\ target_vector = <<0, 1, 1, 1>>) =>
              /\ split_result.thresholds = <<3, 5>>
              /\ Len(split_result.ginis) = 2
              /\ FracEQ(split_result.ginis[1], Frac(0, 1))
              /\ FracEQ(split_result.ginis[2], Frac(0 - 1, 3))

\* C4's case: equal feature values with different labels, which the sort put
\* in the reverse of their input order, and a threshold on each side of them.
C4_Witness ==
    /\ Returned
    /\ Len(split_result.thresholds) >= 2
    /\ \E i, j \in DOMAIN feature_vector :
          /\ i < j
          /\ feature_vector[i] = feature_vector[j]
          /\ target_vector[i] # target_vector[j]
          /\ \E a, b \in DOMAIN sorted_ind : a < b /\ sorted_ind[a] = j /\ sorted_ind[b] = i

\* C5: gini_best is the maximum of ginis and threshold_best is the smallest
\* threshold whose gini equals that maximum.
C5_SmallestBestThreshold ==
    Returned =>
        LET t == split_result.thresholds
            g == split_result.ginis
            best == {k \in DOMAIN g : \A j \in DOMAIN g : ~FracGT(g[j], g[k])}
        IN  /\ best # {}
            /\ \A k \in best : FracEQ(split_result.gini_best, g[k])
            /\ \E k \in best : split_result.threshold_best = t[k]
            /\ \A k \in best : split_result.threshold_best <= t[k]

\* C5's case: two thresholds are equally optimal and the smaller is returned.
C5_Witness ==
    /\ Returned
    /\ \E k, m \in DOMAIN split_result.ginis :
          /\ k < m
          /\ FracEQ(split_result.ginis[k], split_result.gini_best)
          /\ FracEQ(split_result.ginis[m], split_result.gini_best)
          /\ split_result.threshold_best = split_result.thresholds[k]
          /\ split_result.threshold_best < split_result.thresholds[m]

\* ---------------------------------------------- claims about DecisionTree
\* The rows and labels a recorded _fit_node call was given.
CallRows(c) == [k \in 1..Len(c.idx) |-> X[c.idx[k]]]
CallLabels(c) == [k \in 1..Len(c.idx) |-> y[c.idx[k]]]
CallNode(c) == NodeAt(tree, c.path)

Count(v, l) == Cardinality({k \in DOMAIN v : v[k] = l})
IsMajority(v, l) == \A m \in Labels : Count(v, l) >= Count(v, m)
Mixed(v) == Cardinality(Range(v)) > 1
IsProperPrefix(p, q) == Len(p) < Len(q) /\ SubSeq(q, 1, Len(p)) = p

\* The calls of the latest fit that made a terminal node all had rows of one label.
AllLeavesPure ==
    \A n \in DOMAIN calls :
        calls[n].outcome # "nonterminal" => ~Mixed(CallLabels(calls[n]))

\* At every nonterminal node of the latest fit, _predict_node sends each row
\* the node was fitted on to the side the fitting mask sent it.
RoutingAgrees ==
    \A n \in DOMAIN calls :
        calls[n].outcome = "nonterminal" =>
            \A k \in DOMAIN calls[n].idx :
                GoesLeft(X[calls[n].idx[k]], CallNode(calls[n]), feature_types)
                    <=> calls[n].best.split[k]

\* C1: after fit on a new model, predict routes every training row at every
\* nonterminal node to the side of the fitting mask, and if every terminal
\* node is pure predict(X) returns exactly y, in input order.
C1_RoundTrip ==
    (pc = "idle" /\ fits = 1) =>
        /\ RoutingAgrees
        /\ (Len(predicted) > 0 /\ AllLeavesPure) => predicted = y

\* C1's case: a tree with a real and a categorical split, all leaves pure,
\* labels reproduced.
C1_Witness ==
    /\ pc = "idle"
    /\ fits = 1
    /\ AllLeavesPure
    /\ Len(predicted) > 0
    /\ predicted = y
    /\ \E n, m \in DOMAIN calls :
          /\ calls[n].outcome = "nonterminal"
          /\ calls[m].outcome = "nonterminal"
          /\ feature_types[calls[n].best.feature_best] = "real"
          /\ feature_types[calls[m].best.feature_best] = "categorical"

\* The empirical positive-label rate of a category among the rows of a column.
PositiveRate(column, labels, category) ==
    Frac(Cardinality({k \in DOMAIN column : column[k] = category /\ labels[k] = 1}),
         Cardinality({k \in DOMAIN column : column[k] = category}))

\* The rows a logged scan of a column sends left: rank below the threshold.
LeftOfScan(e) == {k \in DOMAIN e.feature_vector : 2 * e.feature_vector[k] < e.threshold}

\* The rows whose category has a rate below cut are exactly the rows in left.
ExactRateCut(column, labels, left, cut) ==
    \A k \in DOMAIN column :
        k \in left <=> FracGT(cut, PositiveRate(column, labels, column[k]))

\* Rows of a rate below cut are in left, rows of a rate above it are not.
LooseRateCut(column, labels, left, cut) ==
    \A k \in DOMAIN column :
        /\ FracGT(cut, PositiveRate(column, labels, column[k])) => k \in left
        /\ FracGT(PositiveRate(column, labels, column[k]), cut) => k \notin left

RatesOf(column, labels) ==
    {PositiveRate(column, labels, column[k]) : k \in DOMAIN column}

DistinctRates(column, labels) ==
    \A i, j \in DOMAIN column :
        column[i] # column[j] =>
            ~FracEQ(PositiveRate(column, labels, column[i]),
                    PositiveRate(column, labels, column[j]))

\* The logged scans of categorical columns on which find_best_split was called.
CategoricalScans ==
    {p \in (DOMAIN calls) \X (DOMAIN feature_types) :
        /\ p[2] \in DOMAIN calls[p[1]].scan
        /\ feature_types[p[2]] = "categorical"
        /\ calls[p[1]].scan[p[2]].called}

\* C2 as stated: whenever _fit_node evaluates a categorical column, the rows
\* the rank threshold sends left are exactly the rows whose category has a
\* positive rate below some cut, equal rates among categories included.
C2_ExactRateCut ==
    \A p \in CategoricalScans :
        LET c       == calls[p[1]]
            column  == Column(CallRows(c), p[2])
            labels  == CallLabels(c)
        IN  \E cut \in RatesOf(column, labels) :
                ExactRateCut(column, labels, LeftOfScan(c.scan[p[2]]), cut)

\* C2 amended: there is a cut such that every row whose category has a rate
\* below it goes left and every row whose category has a rate above it goes
\* right (categories whose rate is the cut go by their rank); when no two
\* categories have the same rate, the left rows are exactly those below the cut.
C2_RateCut ==
    \A p \in CategoricalScans :
        LET c       == calls[p[1]]
            column  == Column(CallRows(c), p[2])
            labels  == CallLabels(c)
            left    == LeftOfScan(c.scan[p[2]])
        IN  /\ \E cut \in RatesOf(column, labels) :
                  LooseRateCut(column, labels, left, cut)
            /\ DistinctRates(column, labels) =>
                  \E cut \in RatesOf(column, labels) :
                      ExactRateCut(column, labels, left, cut)

\* C2's case: the threshold parts two categories of the same rate.
C2_Witness ==
    \E p \in CategoricalScans :
        LET c       == calls[p[1]]
            column  == Column(CallRows(c), p[2])
            labels  == CallLabels(c)
            left    == LeftOfScan(c.scan[p[2]])
        IN  \E i, j \in DOMAIN column :
                /\ i \in left
                /\ j \notin left
                /\ FracEQ(PositiveRate(column, labels, column[i]),
                          PositiveRate(column, labels, column[j]))

\* C6: a call on rows of mixed labels, no more than min_samples_split of
\* them, makes a terminal node with the majority label, scans no column and
\* makes no children.
C6_SizeStop ==
    \A n \in DOMAIN calls :
        LET c == calls[n] IN
        (Mixed(CallLabels(c)) /\ Len(c.idx) <= min_samples_split) =>
            /\ c.outcome = "size"
            /\ c.scan = <<>>
            /\ CallNode(c)["type"] = "terminal"
            /\ IsMajority(CallLabels(c), CallNode(c)["class"])
            /\ "left_child" \notin DOMAIN CallNode(c)
            /\ "right_child" \notin DOMAIN CallNode(c)
            /\ \A m \in DOMAIN calls : ~IsProperPrefix(c.path, calls[m].path)
            /\ \A m \in DOMAIN stack : ~IsProperPrefix(c.path, stack[m].path)

\* C6's case: exactly min_samples_split rows of mixed labels, which a column
\* could split.
C6_Witness ==
    \E n \in DOMAIN calls :
        LET c == calls[n] IN
        /\ Mixed(CallLabels(c))
        /\ Len(c.idx) = min_samples_split
        /\ \E f \in DOMAIN feature_types : Mixed(Column(CallRows(c), f))
        /\ CallNode(c)["type"] = "terminal"

\* C7: find_best_split is never called on a constant vector: a column whose
\* values on the rows are all equal is skipped, real or categorical; every
\* vector it is called on has a candidate threshold; and when every column is
\* constant the node is terminal with the majority label, no error.
C7_ConstantSkipped ==
    /\ pc # "IndexError"
    /\ \A n \in DOMAIN calls :
        LET c == calls[n] IN
        /\ \A f \in DOMAIN c.scan :
              /\ c.scan[f].called => Mixed(c.scan[f].feature_vector)
              /\ c.scan[f].called <=> Mixed(Column(CallRows(c), f))
              /\ feature_types[f] = "real" =>
                     c.scan[f].feature_vector = Column(CallRows(c), f)
        /\ (Mixed(CallLabels(c)) /\ Len(c.idx) > min_samples_split) =>
              /\ DOMAIN c.scan = DOMAIN feature_types
              /\ (\A f \in DOMAIN feature_types : ~Mixed(Column(CallRows(c), f))) =>
                    /\ c.outcome = "nocandidate"
                    /\ CallNode(c)["type"] = "terminal"
                    /\ IsMajority(CallLabels(c), CallNode(c)["class"])

\* C7's case: one call skipped a constant column and called find_best_split
\* on the other, and a later call found every column constant.
C7_Witness ==
    /\ \E n \in DOMAIN calls :
          /\ calls[n].outcome = "nonterminal"
          /\ \E f, g \in DOMAIN calls[n].scan :
                ~calls[n].scan[f].called /\ calls[n].scan[g].called
    /\ \E n \in DOMAIN calls : calls[n].outcome = "nocandidate"

\* The columns of a call's scan whose gini is the largest among those
\* find_best_split was called on.
Winners(c) ==
    {f \in DOMAIN c.scan :
        /\ c.scan[f].called
        /\ \A g \in DOMAIN c.scan :
              c.scan[g].called => ~FracGT(c.scan[g].gini, c.scan[f].gini)}

\* C8: at every nonterminal node feature_split is the lowest-index column
\* among the non-constant columns of largest gini, and the threshold or
\* categories_split recorded and the left mask are those of that column.
C8_FirstBestColumn ==
    \A n \in DOMAIN calls :
        LET c == calls[n]
            f == c.best.feature_best
            e == c.scan[f]
        IN  c.outcome = "nonterminal" =>
            /\ f \in Winners(c)
            /\ \A g \in Winners(c) : f <= g
            /\ CallNode(c)["feature_split"] = f
            /\ c.best.split = [k \in DOMAIN c.idx |-> k \in LeftOfScan(e)]
            /\ IF feature_types[f] = "real"
               THEN CallNode(c)["threshold"] = e.threshold
               ELSE Range(CallNode(c)["categories_split"])
                      = {CallRows(c)[k][f] : k \in LeftOfScan(e)}
            /\ \A m \in DOMAIN calls :
                  /\ calls[m].path = Append(c.path, "left_child") =>
                        Range(calls[m].idx) = {c.idx[k] : k \in LeftOfScan(e)}
                  /\ calls[m].path = Append(c.path, "right_child") =>
                        Range(calls[m].idx) =
                            {c.idx[k] : k \in (DOMAIN c.idx) \ LeftOfScan(e)}

\* C8's case: both columns have the same best gini but different left rows,
\* and the first is taken.
C8_Witness ==
    \E n \in DOMAIN calls :
        LET c == calls[n] IN
        /\ c.outcome = "nonterminal"
        /\ Winners(c) = {1, 2}
        /\ c.best.feature_best = 1
        /\ LeftOfScan(c.scan[1]) # LeftOfScan(c.scan[2])
        /\ Len(calls) > n

NonterminalCalls == {n \in DOMAIN calls : calls[n].outcome = "nonterminal"}

RECURSIVE CountNonterminal(_)
CountNonterminal(node) ==
    IF "type" \in DOMAIN node /\ node["type"] = "nonterminal"
    THEN 1 + CountNonterminal(node["left_child"])
           + CountNonterminal(node["right_child"])
    ELSE 0

\* Whether a call's rows leave _fit_node no choice but a terminal node.
MustBeTerminal(c) ==
    \/ ~Mixed(CallLabels(c))
    \/ Len(c.idx) <= min_samples_split
    \/ \A f \in DOMAIN feature_types : ~Mixed(Column(CallRows(c), f))

C9_State ==
    /\ depth = created
    /\ fits = 0 => depth = 0
    /\ depth >= Cardinality(NonterminalCalls)
    /\ fits = 1 => depth = Cardinality(NonterminalCalls)
    /\ \A n \in DOMAIN calls :
          calls[n].outcome # "nonterminal" <=> MustBeTerminal(calls[n])

C9_Step ==
    /\ depth' >= depth
    /\ depth' # depth =>
          /\ depth' = depth + 1
          /\ Len(calls') = Len(calls) + 1
          /\ calls'[Len(calls')].outcome = "nonterminal"
    /\ (Len(calls') = Len(calls) + 1 /\ calls'[Len(calls')].outcome = "nonterminal")
          => depth' = depth + 1

\* C9: the depth counter is the number of nonterminal nodes made by all the
\* fit calls on the instance: 0 at first, one more with each nonterminal node
\* and only then, never less, not reset by a later fit; and whether a node
\* is terminal is decided by its rows alone, whatever the counter.
C9_DepthCounter == []C9_State /\ [][C9_Step]_vars

\* C9's case: a second fit has made nonterminal nodes on top of the first's.
C9_Witness ==
    /\ fits = 2
    /\ pc = "idle"
    /\ Cardinality(NonterminalCalls) >= 1
    /\ depth > Cardinality(NonterminalCalls)
    /\ depth > CountNonterminal(tree)

RECURSIVE FullyDefined(_, _)
FullyDefined(node, types) ==
    /\ "type" \in DOMAIN node
    /\ IF node["type"] = "terminal"
       THEN "class" \in DOMAIN node /\ node["class"] \in Labels
       ELSE /\ node["type"] = "nonterminal"
            /\ {"feature_split", "left_child", "right_child"} \subseteq DOMAIN node
            /\ node["feature_split"] \in DOMAIN types
            /\ IF types[node["feature_split"]] = "real"
               THEN "threshold" \in DOMAIN node
               ELSE "categories_split" \in DOMAIN node
            /\ FullyDefined(node["left_child"], types)
            /\ FullyDefined(node["right_child"], types)

C10_State ==
    /\ pc # "IndexError"
    /\ \A n \in DOMAIN calls :
          calls[n].outcome = "nonterminal" =>
              /\ \E k \in DOMAIN calls[n].best.split : calls[n].best.split[k]
              /\ \E k \in DOMAIN calls[n].best.split : ~calls[n].best.split[k]
              /\ DOMAIN calls[n].best.split = DOMAIN calls[n].idx
    /\ \A n \in DOMAIN calls :
          /\ Len(calls[n].idx) >= 1
          /\ calls[n].path # <<>> =>
                \E m \in DOMAIN calls :
                    /\ calls[m].path = SubSeq(calls[n].path, 1, Len(calls[n].path) - 1)
                    /\ Len(calls[n].idx) < Len(calls[m].idx)
                    /\ Range(calls[n].idx) \subseteq Range(calls[m].idx)
    /\ \A n \in DOMAIN stack :
          /\ Len(stack[n].idx) >= 1
          /\ stack[n].path # <<>> =>
                \E m \in DOMAIN calls :
                    /\ calls[m].path = SubSeq(stack[n].path, 1, Len(stack[n].path) - 1)
                    /\ Len(stack[n].idx) < Len(calls[m].idx)
                    /\ Range(stack[n].idx) \subseteq Range(calls[m].idx)
    /\ (pc = "idle" /\ fits > 0) =>
          /\ FullyDefined(tree, feature_types)
          /\ CountNonterminal(tree) <= Len(X) - 1
          /\ CountNonterminal(tree) = Cardinality(NonterminalCalls)

\* What is left to do of a running fit: 2 * rows - 1 for each pending call.
RECURSIVE Pending(_)
Pending(st) == IF st = <<>> THEN 0 ELSE 2 * Len(Head(st).idx) - 1 + Pending(Tail(st))

C10_Progress ==
    /\ pc = "fit" => (stack # <<>> /\ Len(calls) + Pending(stack) <= 2 * Len(X) - 1)
    /\ pc = "idle" => stack = <<>>

C10_Step ==
    pc = "fit" => (Pending(stack') < Pending(stack) /\ Len(calls') = Len(calls) + 1)

\* C10: at every nonterminal node the left mask and its complement are both
\* non-empty, so each recursive call gets a non-empty subset strictly smaller
\* than its parent's; fit returns (a running fit always has a pending call,
\* and each call lowers what is left to do, so there are at most
\* 2 * samples - 1 calls), with every node terminal or nonterminal and at
\* most (number of samples - 1) nonterminal nodes.
C10_FitTerminates == [](C10_State /\ C10_Progress) /\ [][C10_Step]_vars

\* C10's case: a fit that returned with both children of the root split
\* further or a chain of splits: as many nonterminal nodes as rows allow.
C10_Witness ==
    /\ pc = "idle"
    /\ fits = 1
    /\ Len(X) >= 3
    /\ CountNonterminal(tree) = Len(X) - 1

====
